---- MODULE Spec2Model ----
(***************************************************************************)
(* Credit scoring pipeline of CreditAgent: the FMP variant                 *)
(* (credit_agent_fmp.py) and the two yfinance variants (credit_agent.py,   *)
(* credit_agent_llm.py).                                                   *)
(*                                                                         *)
(* Numbers.  A Python float is modelled exactly, as an extended rational   *)
(* [n |-> numerator, d |-> denominator] with d > 0, normalised; math.inf   *)
(* is [n |-> 1, d |-> 0] and -math.inf is [n |-> -1, d |-> 0].  Rounding   *)
(* and overflow of IEEE doubles are outside the model.  The extracted      *)
(* money amounts are whole numbers of units of 0.5e9, so they are kept as  *)
(* integers; fcf and the four ratios are extended rationals.               *)
(*                                                                         *)
(* Strings of the payloads are sequences of one-character strings, so that *)
(* slicing (date[:4]) is computed, not assumed.                            *)
(***************************************************************************)
EXTENDS Integers, Sequences, FiniteSets, TLC

VARIABLES
    impl,          \* which source file runs: "fmp", "llm" or "yf"
    pc,            \* position inside the pipeline function
    FMP_API_KEY,   \* credit_agent_fmp.FMP_API_KEY is set (truthy)
    forced_name,   \* the forced_name argument (<<>> models None / "")
    upstream,      \* what the data provider answers for the symbol
    income,        \* local: income statement record (fmp) / frame (yfinance)
    balance,       \* local: balance sheet
    cashflow,      \* local: cash-flow statement
    profile,       \* local: profile (fmp) / tk.info (yfinance)
    q,             \* locals of the extractor, <<>> before extraction
    calc,          \* locals fcf and the four ratios, <<>> before calculation
    metrics,       \* the CreditMetrics object, <<>> while none exists
    sub_scores,    \* the four sub-score locals of compute_score at its return
    raised,        \* the exception that left the pipeline, "" if none
    entry,         \* who runs the pipeline: a route, a main(), or a bare call
    query,         \* the query of the request
    OPENAI_API_KEY,\* os.getenv("OPENAI_API_KEY") is set
    resolved,      \* the (symbol, name) pair of the resolver, <<>> before it
    error,         \* local error of the route, None while unset
    memo,          \* local memo / memo_text, None while unset
    status,        \* how the request ended, "" while it runs
    calls,         \* per upstream endpoint, the outcomes of the calls made
    body,          \* the PDF the request has produced or sent, <<>> if none
    files,         \* the file system: what each report path holds
    suspended      \* the locals of a second request while it does not run

\* the state of the request around the pipeline
request == <<entry, query, OPENAI_API_KEY, resolved, error, memo, status>>

vars == <<impl, pc, FMP_API_KEY, forced_name, upstream, income, balance,
          cashflow, profile, q, calc, metrics, sub_scores, raised,
          entry, query, OPENAI_API_KEY, resolved, error, memo, status, calls,
          body, files, suspended>>

None == "None"

Endpoints == {"search", "income", "balance", "cashflow", "profile", "yf"}

NoCalls == [e \in Endpoints |-> <<>>]

\* one more call of endpoint e, answered with outcome o
Called(e, o) == [calls EXCEPT ![e] = Append(@, o)]

\* the directories the reports are written to, and the symbols in their
\* names
Paths == [dir : {"/tmp", "."}, symbol : {<<"A", "C", "M", "E">>}]

NoFiles == [p \in Paths |-> <<>>]

\* one request on its own: nothing written yet, no second request
Alone == body = <<>> /\ files = NoFiles /\ suspended = <<>>

\* a bare call of the pipeline function: no route or main() around it
BareCall ==
    /\ entry = "call" /\ query = <<>> /\ OPENAI_API_KEY = FALSE
    /\ resolved = <<>> /\ error = None /\ memo = None /\ status = ""
    /\ Alone

Impls == {"fmp", "llm", "yf"}

(***************************************************************************)
(* Floats                                                                  *)
(***************************************************************************)
RECURSIVE GCD(_, _)
GCD(a, b) == IF b = 0 THEN a ELSE GCD(b, a % b)

Abs(x) == IF x < 0 THEN -x ELSE x

Inf == [n |-> 1, d |-> 0]
NegInf == [n |-> -1, d |-> 0]
\* the outcome of a float division whose divisor is zero: ZeroDivisionError
DivZero == [n |-> 0, d |-> 0]

\* the float a / b of two integers, b # 0
Frac(a, b) ==
    LET g == GCD(Abs(a), Abs(b))
        s == IF b < 0 THEN -1 ELSE 1
    IN  [n |-> (s * a) \div g, d |-> (s * b) \div g]

IsFinite(x) == x.d > 0

\* Python's x / y on two finite floats
Div(x, y) == IF y.n = 0 THEN DivZero ELSE Frac(x.n * y.d, x.d * y.n)

\* x < y on floats that are finite or infinite
Lt(x, y) ==
    IF x = Inf \/ y = NegInf THEN FALSE
    ELSE IF y = Inf \/ x = NegInf THEN TRUE
    ELSE x.n * y.d < y.n * x.d

Le(x, y) == x = y \/ Lt(x, y)
Gt(x, y) == Lt(y, x)
Ge(x, y) == Le(y, x)

\* the float of an integer amount
R(i) == Frac(i, 1)

\* x + y, x - y, x * y on finite floats
Add(x, y) == Frac(x.n * y.d + y.n * x.d, x.d * y.d)
Sub(x, y) == Frac(x.n * y.d - y.n * x.d, x.d * y.d)
Mul(x, y) == Frac(x.n * y.n, x.d * y.d)

(***************************************************************************)
(* compute_score                                                           *)
(***************************************************************************)
\* Debt / EBITDA block
debt_ebitda_score_inf_best(d_e) ==
    IF Le(d_e, Frac(0, 1)) \/ d_e = Inf THEN 5
    ELSE IF Lt(d_e, Frac(2, 1)) THEN 5
    ELSE IF Lt(d_e, Frac(3, 1)) THEN 4
    ELSE IF Lt(d_e, Frac(4, 1)) THEN 3
    ELSE IF Lt(d_e, Frac(5, 1)) THEN 2
    ELSE 1

debt_ebitda_score_le(d_e) ==
    IF Le(d_e, Frac(0, 1)) THEN 5
    ELSE IF Le(d_e, Frac(2, 1)) THEN 5
    ELSE IF Le(d_e, Frac(3, 1)) THEN 4
    ELSE IF Le(d_e, Frac(4, 1)) THEN 3
    ELSE IF Le(d_e, Frac(5, 1)) THEN 2
    ELSE 1

debt_ebitda_score(d_e) ==
    IF Le(d_e, Frac(0, 1)) THEN 5
    ELSE IF Lt(d_e, Frac(2, 1)) THEN 5
    ELSE IF Lt(d_e, Frac(3, 1)) THEN 4
    ELSE IF Lt(d_e, Frac(4, 1)) THEN 3
    ELSE IF Lt(d_e, Frac(5, 1)) THEN 2
    ELSE 1

\* Interest coverage block
ic_score_ge(ic) ==
    IF Ge(ic, Frac(8, 1)) THEN 5
    ELSE IF Ge(ic, Frac(5, 1)) THEN 4
    ELSE IF Ge(ic, Frac(3, 1)) THEN 3
    ELSE IF Ge(ic, Frac(15, 10)) THEN 2
    ELSE 1

ic_score(ic) ==
    IF Gt(ic, Frac(8, 1)) THEN 5
    ELSE IF Gt(ic, Frac(5, 1)) THEN 4
    ELSE IF Gt(ic, Frac(3, 1)) THEN 3
    ELSE IF Gt(ic, Frac(15, 10)) THEN 2
    ELSE 1

\* DSCR block
dscr_score_finite_only(dscr) ==
    IF ~IsFinite(dscr) THEN 1
    ELSE IF Gt(dscr, Frac(18, 10)) THEN 5
    ELSE IF Gt(dscr, Frac(14, 10)) THEN 4
    ELSE IF Gt(dscr, Frac(11, 10)) THEN 3
    ELSE IF Gt(dscr, Frac(10, 10)) THEN 2
    ELSE 1

dscr_score(dscr) ==
    IF Gt(dscr, Frac(18, 10)) THEN 5
    ELSE IF Gt(dscr, Frac(14, 10)) THEN 4
    ELSE IF Gt(dscr, Frac(11, 10)) THEN 3
    ELSE IF Gt(dscr, Frac(10, 10)) THEN 2
    ELSE 1

\* FCF / Debt block
fcf_score(fcf_d) ==
    IF Gt(fcf_d, Frac(25, 100)) THEN 5
    ELSE IF Gt(fcf_d, Frac(15, 100)) THEN 4
    ELSE IF Gt(fcf_d, Frac(8, 100)) THEN 3
    ELSE IF Gt(fcf_d, Frac(3, 100)) THEN 2
    ELSE 1

\* Bucket block
bucket_off_by_one(score) ==
    IF score > 17 THEN "Low credit risk"
    ELSE IF score > 13 THEN "Moderate credit risk"
    ELSE IF score > 9 THEN "Elevated credit risk"
    ELSE "High credit risk"

bucket(score) ==
    IF score >= 17 THEN "Low credit risk"
    ELSE IF score >= 13 THEN "Moderate credit risk"
    ELSE IF score >= 9 THEN "Elevated credit risk"
    ELSE "High credit risk"

\* the four sub-score locals for a metrics record m
SubScores(m) ==
    [debt_ebitda_score |-> debt_ebitda_score(m.debt_to_ebitda),
     ic_score          |-> ic_score(m.interest_coverage),
     dscr_score        |-> dscr_score(m.dscr),
     fcf_score         |-> fcf_score(m.fcf_to_debt)]

\* score = 0; score += each sub-score in turn
ScoreSum_drops_fcf(s) == 0 + s.debt_ebitda_score + s.ic_score + s.dscr_score

ScoreSum(s) ==
    0 + s.debt_ebitda_score + s.ic_score + s.dscr_score + s.fcf_score

compute_score_rebuilds ==
    /\ pc = "score"
    /\ LET m == metrics[1]
           s == SubScores(m)
           score == ScoreSum(s)
       IN  /\ sub_scores' = <<s>>
           /\ metrics' = <<[m EXCEPT !.score = score,
                                     !.rating_bucket = bucket(score),
                                     !.capex = Abs(m.capex) + 1]>>
    /\ pc' = "done"
    /\ UNCHANGED <<impl, FMP_API_KEY, forced_name, upstream, income, balance,
                   cashflow, profile, q, calc, raised>>
    /\ UNCHANGED <<request, calls>>
    /\ UNCHANGED <<body, files, suspended>>

\* compute_score(metrics): mutates score and rating_bucket of the object in
\* place and returns it
compute_score ==
    /\ pc = "score"
    /\ LET m == metrics[1]
           s == SubScores(m)
           score == ScoreSum(s)
       IN  /\ sub_scores' = <<s>>
           /\ metrics' = <<[m EXCEPT !.score = score,
                                     !.rating_bucket = bucket(score)]>>
    /\ pc' = "done"
    /\ UNCHANGED <<impl, FMP_API_KEY, forced_name, upstream, income, balance,
                   cashflow, profile, q, calc, raised>>
    /\ UNCHANGED <<request, calls>>
    /\ UNCHANGED <<body, files, suspended>>


(***************************************************************************)
(* Payloads: JSON values and dictionaries                                  *)
(***************************************************************************)
\* a JSON value / a frame cell: a number, a string or null (None)
Num(i) == [t |-> "num", v |-> i, s |-> <<>>]
Str(x) == [t |-> "str", v |-> 0, s |-> x]
Null == [t |-> "null", v |-> 0, s |-> <<>>]

EmptyDict == <<>>

\* dict.get(key, default)
get(rec, key, default) == IF key \in DOMAIN rec THEN rec[key] ELSE default

\* truth value of a Python object: None, 0, 0.0 and "" are falsy
Truthy(x) == (x.t = "num" /\ x.v # 0) \/ (x.t = "str" /\ x.s # <<>>)

\* Python's  a or b
Or(a, b) == IF Truthy(a) THEN a ELSE b

\* s[:4]
First4(x) == SubSeq(x, 1, IF Len(x) < 4 THEN Len(x) ELSE 4)

SYMBOL == <<"A", "C", "M", "E">>
AcmeCorp == <<"A", "c", "m", "e", " ", "C", "o", "r", "p">>
ForcedName == <<"A", "c", "m", "e">>
Y2023 == <<"2", "0", "2", "3">>
Date2023 == <<"2", "0", "2", "3", "-", "0", "9", "-", "3", "0">>

(***************************************************************************)
(* FMP fetch functions                                                     *)
(***************************************************************************)
\* what one call of _get_json meets: a non-empty list, an HTTP or network
\* error, or an empty list
Outcomes == {"ok", "http_error", "empty"}

fmp_fetch_error_swallowed(o, empty_is_error) ==
    IF ~FMP_API_KEY THEN "RuntimeError" ELSE ""

\* the exception a fetch_fmp_* function leaves with, "" if it returns
fmp_fetch_error(o, empty_is_error) ==
    IF ~FMP_API_KEY THEN "RuntimeError"
    ELSE IF o = "http_error" THEN "HTTPError"
    ELSE IF o = "empty" /\ empty_is_error THEN "ValueError"
    ELSE ""

fetch_fmp_income_statement ==
    /\ impl = "fmp" /\ pc = "income"
    /\ \E o \in Outcomes :
         LET e == fmp_fetch_error(o, TRUE)
         IN  /\ raised' = e
             /\ calls' = IF FMP_API_KEY THEN Called("income", o) ELSE calls
             /\ pc' = IF e = "" THEN "balance" ELSE "raised"
             /\ income' = IF e = "" THEN upstream.income ELSE income
    /\ UNCHANGED <<impl, FMP_API_KEY, forced_name, upstream, balance,
                   cashflow, profile, q, calc, metrics, sub_scores>>
    /\ UNCHANGED request
    /\ UNCHANGED <<body, files, suspended>>

fetch_fmp_balance_sheet ==
    /\ impl = "fmp" /\ pc = "balance"
    /\ \E o \in Outcomes :
         LET e == fmp_fetch_error(o, TRUE)
         IN  /\ raised' = e
             /\ calls' = IF FMP_API_KEY THEN Called("balance", o) ELSE calls
             /\ pc' = IF e = "" THEN "cashflow" ELSE "raised"
             /\ balance' = IF e = "" THEN upstream.balance ELSE balance
    /\ UNCHANGED <<impl, FMP_API_KEY, forced_name, upstream, income,
                   cashflow, profile, q, calc, metrics, sub_scores>>
    /\ UNCHANGED request
    /\ UNCHANGED <<body, files, suspended>>

fetch_fmp_cash_flow ==
    /\ impl = "fmp" /\ pc = "cashflow"
    /\ \E o \in Outcomes :
         LET e == fmp_fetch_error(o, TRUE)
         IN  /\ raised' = e
             /\ calls' = IF FMP_API_KEY THEN Called("cashflow", o) ELSE calls
             /\ pc' = IF e = "" THEN "profile" ELSE "raised"
             /\ cashflow' = IF e = "" THEN upstream.cashflow ELSE cashflow
    /\ UNCHANGED <<impl, FMP_API_KEY, forced_name, upstream, income,
                   balance, profile, q, calc, metrics, sub_scores>>
    /\ UNCHANGED request
    /\ UNCHANGED <<body, files, suspended>>

\* an empty answer is no error here: the profile is then {}
fetch_fmp_profile ==
    /\ impl = "fmp" /\ pc = "profile"
    /\ \E o \in Outcomes :
         LET e == fmp_fetch_error(o, FALSE)
         IN  /\ raised' = e
             /\ calls' = IF FMP_API_KEY THEN Called("profile", o) ELSE calls
             /\ pc' = IF e = "" THEN "extract" ELSE "raised"
             /\ profile' = IF e # "" THEN profile
                           ELSE IF o = "empty" THEN EmptyDict
                           ELSE upstream.profile
    /\ UNCHANGED <<impl, FMP_API_KEY, forced_name, upstream, income,
                   balance, cashflow, q, calc, metrics, sub_scores>>
    /\ UNCHANGED request
    /\ UNCHANGED <<body, files, suspended>>

(***************************************************************************)
(* yfinance: frames and safe_get                                           *)
(***************************************************************************)
\* a DataFrame: its column labels (most recent period first, as the year
\* of the period) and, per row label, the cell of the first column
Frame(year, rows) == [columns |-> <<year>>, rows |-> rows]
EmptyFrame == [columns |-> <<>>, rows |-> EmptyDict]

\* df is None or df.empty
FrameEmpty(df) == df.columns = <<>> \/ DOMAIN df.rows = {}

\* safe_get(df, label_candidates, default=0.0): the cell of the first
\* candidate label that is a row of the frame
RECURSIVE first_label(_, _)
first_label(df, label_candidates) ==
    IF label_candidates = <<>> THEN Num(0)
    ELSE IF Head(label_candidates) \in DOMAIN df.rows
         THEN df.rows[Head(label_candidates)]
         ELSE first_label(df, Tail(label_candidates))

safe_get(df, label_candidates) ==
    IF FrameEmpty(df) THEN Num(0) ELSE first_label(df, label_candidates)

\* yf.Ticker(ticker) and its properties info, income_stmt, cashflow and
\* balance_sheet: each property access is a network call that can raise
yf_fetch ==
    /\ impl \in {"llm", "yf"} /\ pc = "yf"
    /\ \E o \in {"ok", "http_error"} :
         /\ calls' = Called("yf", o)
         /\ raised' = IF o = "ok" THEN "" ELSE "HTTPError"
         /\ pc' = IF o = "ok" THEN "extract" ELSE "raised"
         /\ profile' = IF o = "ok" THEN upstream.profile ELSE profile
         /\ income' = IF o = "ok" THEN upstream.income ELSE income
         /\ cashflow' = IF o = "ok" THEN upstream.cashflow ELSE cashflow
         /\ balance' = IF o = "ok" THEN upstream.balance ELSE balance
    /\ UNCHANGED <<impl, FMP_API_KEY, forced_name, upstream, q, calc,
                   metrics, sub_scores>>
    /\ UNCHANGED request
    /\ UNCHANGED <<body, files, suspended>>

(***************************************************************************)
(* Metric extraction                                                       *)
(***************************************************************************)
\* float(x or 0.0) of a payload value; float() of a non-numeric string
\* raises ValueError
or_zero_dropped(x) == x
or_zero(x) == Or(x, Num(0))
float_raises(x) == or_zero(x).t # "num"
float_of(x) == or_zero(x).v

company_name_profile_first ==
    Or(Or(get(profile, "companyName", Null), Str(forced_name)), Str(SYMBOL)).s

\* company_name (credit_agent_fmp.py)
company_name_fmp ==
    IF forced_name # <<>> THEN forced_name
    ELSE Or(Or(get(profile, "companyName", Null),
               get(profile, "companyName", Null)), Str(SYMBOL)).s

\* company_name (credit_agent_llm.py; credit_agent.py takes no forced_name)
company_name_yf ==
    IF impl = "llm" /\ forced_name # <<>> THEN forced_name
    ELSE Or(Or(get(profile, "longName", Null),
               get(profile, "shortName", Null)), Str(SYMBOL)).s

\* str(income.get("calendarYear") or income.get("date", "")[:4]);
\* slicing None raises TypeError
fiscal_year_raises ==
    /\ ~Truthy(get(income, "calendarYear", Null))
    /\ get(income, "date", Str(<<>>)).t # "str"

fiscal_year_fmp ==
    LET cy == get(income, "calendarYear", Null)
    IN  IF Truthy(cy) THEN cy.s
        ELSE First4(get(income, "date", Str(<<>>)).s)

\* the first non-empty frame among income, cashflow, balance gives the year
fiscal_year_yf ==
    IF ~FrameEmpty(income) THEN income.columns[1]
    ELSE IF ~FrameEmpty(cashflow) THEN cashflow.columns[1]
    ELSE IF ~FrameEmpty(balance) THEN balance.columns[1]
    ELSE <<>>

\* Make capex positive outflow
capex_negated(raw) == -raw
capex_fmp(raw) == IF raw < 0 THEN -raw ELSE raw

\* the raw values the FMP extractor reads, in the order it reads them
fmp_raw ==
    [revenue |-> get(income, "revenue", Null),
     ebitda |-> get(income, "ebitda", Null),
     ebit |-> get(income, "ebit", Null),
     interest_expense |-> get(income, "interestExpense", Null),
     operating_cash_flow |->
         Or(get(cashflow, "netCashProvidedByOperatingActivities", Null),
            get(cashflow, "netCashProvidedByOperatingActivitiesReported", Null)),
     capex |-> get(cashflow, "capitalExpenditure", Null),
     change_in_wc |-> get(cashflow, "changeInWorkingCapital", Null),
     short_term_debt |-> Or(get(balance, "shortTermDebt", Null),
                            get(balance, "shortTermBorrowings", Null)),
     long_term_debt |-> get(balance, "longTermDebt", Null)]

\* the cells the yfinance extractors read
yf_raw ==
    [revenue |-> safe_get(income, <<"Total Revenue", "Revenue", "Net Revenue">>),
     ebitda |-> safe_get(income, <<"Ebitda", "EBITDA">>),
     ebit |-> safe_get(income, <<"Ebit", "EBIT", "Operating Income",
                                 "Operating Income or Loss">>),
     interest_expense |-> safe_get(income, <<"Interest Expense",
                                             "Interest Expense Non Operating">>),
     operating_cash_flow |->
         safe_get(cashflow, <<"Total Cash From Operating Activities",
                              "Operating Cash Flow">>),
     capex |-> safe_get(cashflow, <<"Capital Expenditures",
                                    "Purchase Of Property Plant And Equipment">>),
     change_in_wc |-> safe_get(cashflow, <<"Change In Working Capital",
                                           "Change In Working Capital">>),
     short_term_debt |-> safe_get(balance, <<"Short Long Term Debt",
                                             "Short Term Debt">>),
     long_term_debt |-> safe_get(balance, <<"Long Term Debt",
                                            "Long Term Debt Noncurrent">>)]

\* the extracted quantities: the locals of the pipeline function up to
\* total_debt
Quantities(raw, name, year, capex) ==
    [company_name |-> name,
     fiscal_year |-> year,
     revenue |-> float_of(raw.revenue),
     ebitda |-> float_of(raw.ebitda),
     ebit |-> float_of(raw.ebit),
     interest_expense |-> float_of(raw.interest_expense),
     operating_cash_flow |-> float_of(raw.operating_cash_flow),
     capex |-> capex,
     change_in_wc |-> float_of(raw.change_in_wc),
     short_term_debt |-> float_of(raw.short_term_debt),
     long_term_debt |-> float_of(raw.long_term_debt),
     total_debt |-> float_of(raw.short_term_debt) + float_of(raw.long_term_debt)]

\* the exception the extraction leaves with, "" if none
extract_error(raw) ==
    IF impl = "fmp" /\ fiscal_year_raises THEN "TypeError"
    ELSE IF \E k \in DOMAIN raw : float_raises(raw[k]) THEN "ValueError"
    ELSE ""

\* the extraction part of fetch_credit_metrics_for_symbol,
\* fetch_credit_metrics_for_ticker and fetch_credit_metrics
extract ==
    /\ pc = "extract"
    /\ LET raw == IF impl = "fmp" THEN fmp_raw ELSE yf_raw
           e == extract_error(raw)
       IN  /\ raised' = e
           /\ pc' = IF e = "" THEN "calc" ELSE "raised"
           /\ q' = IF e # "" THEN q
                   ELSE IF impl = "fmp"
                   THEN <<Quantities(raw, company_name_fmp, fiscal_year_fmp,
                                     capex_fmp(float_of(raw.capex)))>>
                   ELSE <<Quantities(raw, company_name_yf, fiscal_year_yf,
                                     -float_of(raw.capex))>>
    /\ UNCHANGED <<impl, FMP_API_KEY, forced_name, upstream, income, balance,
                   cashflow, profile, calc, metrics, sub_scores>>
    /\ UNCHANGED <<request, calls>>
    /\ UNCHANGED <<body, files, suspended>>

(***************************************************************************)
(* Ratio calculation                                                       *)
(***************************************************************************)
\* tax_rate = 0.25
tax_rate == Frac(25, 100)

fcf_fallback_without_wc(x) ==
    IF impl = "yf"
    THEN Sub(Add(Mul(R(x.ebit), Sub(R(1), tax_rate)),
                 R(x.operating_cash_flow)), R(x.capex))
    ELSE Sub(Sub(Mul(R(x.ebit), Sub(R(1), tax_rate)), R(x.capex)),
             R(x.change_in_wc))

\* the fallback estimate from EBIT; credit_agent.py also adds
\* operating_cash_flow
fcf_fallback(x) ==
    IF impl = "yf"
    THEN Sub(Sub(Add(Mul(R(x.ebit), Sub(R(1), tax_rate)),
                     R(x.operating_cash_flow)), R(x.capex)), R(x.change_in_wc))
    ELSE Sub(Sub(Mul(R(x.ebit), Sub(R(1), tax_rate)), R(x.capex)),
             R(x.change_in_wc))

fcf_always_plain(x) == R(x.operating_cash_flow - x.capex)

\* FCF ~ OCF - capex
fcf_of(x) ==
    IF x.operating_cash_flow = 0 /\ x.ebit # 0
    THEN fcf_fallback(x)
    ELSE R(x.operating_cash_flow - x.capex)

fcf_to_debt_of(x, fcf) ==
    IF x.total_debt > 0 THEN Div(fcf, R(x.total_debt)) ELSE Inf

debt_to_ebitda_unguarded(x) == Div(R(x.total_debt), R(x.ebitda))

debt_to_ebitda_of(x) ==
    IF x.ebitda # 0 THEN Div(R(x.total_debt), R(x.ebitda)) ELSE Inf

interest_coverage_of(x) ==
    IF x.interest_expense # 0
    THEN Div(R(x.ebit), R(Abs(x.interest_expense))) ELSE Inf

\* denom = abs(interest_expense) + short_term_debt
denom_of(x) == Abs(x.interest_expense) + x.short_term_debt

dscr_of(x) ==
    IF denom_of(x) > 0
    THEN Div(R(x.operating_cash_flow), R(denom_of(x))) ELSE Inf

\* the locals fcf, fcf_to_debt, debt_to_ebitda, interest_coverage, dscr
Ratios(x) ==
    [fcf |-> fcf_of(x),
     fcf_to_debt |-> fcf_to_debt_of(x, fcf_of(x)),
     debt_to_ebitda |-> debt_to_ebitda_of(x),
     interest_coverage |-> interest_coverage_of(x),
     dscr |-> dscr_of(x)]

\* the FCF and ratio part of the pipeline function; a float division by
\* zero raises ZeroDivisionError
calculate ==
    /\ pc = "calc"
    /\ LET r == Ratios(q[1])
           zero == \E k \in DOMAIN r : r[k] = DivZero
       IN  /\ raised' = IF zero THEN "ZeroDivisionError" ELSE ""
           /\ pc' = IF zero THEN "raised" ELSE "construct"
           /\ calc' = IF zero THEN calc ELSE <<r>>
    /\ UNCHANGED <<impl, FMP_API_KEY, forced_name, upstream, income, balance,
                   cashflow, profile, q, metrics, sub_scores>>
    /\ UNCHANGED <<request, calls>>
    /\ UNCHANGED <<body, files, suspended>>

(***************************************************************************)
(* CreditMetrics                                                           *)
(***************************************************************************)
\* Does CreditMetrics(...) take the eighteen fields as keyword arguments?
\* @dataclass generates __init__ unless the class body defines one: the
\* class of credit_agent_fmp.py defines  def __init__(self): pass
init_takes_fields_always(i) == TRUE
init_takes_fields(i) == i # "fmp"

\* metrics = CreditMetrics(ticker=..., ..., score=0, rating_bucket="")
CreditMetrics(x, r) ==
    [ticker |-> SYMBOL,
     company_name |-> x.company_name,
     fiscal_year |-> x.fiscal_year,
     revenue |-> x.revenue,
     ebitda |-> x.ebitda,
     ebit |-> x.ebit,
     interest_expense |-> x.interest_expense,
     operating_cash_flow |-> x.operating_cash_flow,
     capex |-> x.capex,
     change_in_wc |-> x.change_in_wc,
     total_debt |-> x.total_debt,
     fcf |-> r.fcf,
     fcf_to_debt |-> r.fcf_to_debt,
     debt_to_ebitda |-> r.debt_to_ebitda,
     interest_coverage |-> r.interest_coverage,
     dscr |-> r.dscr,
     score |-> 0,
     rating_bucket |-> ""]

\* the constructor call of the pipeline function; an unexpected keyword
\* argument raises TypeError
construct ==
    /\ pc = "construct"
    /\ IF init_takes_fields(impl)
       THEN /\ metrics' = <<CreditMetrics(q[1], calc[1])>>
            /\ pc' = "score"
            /\ raised' = ""
       ELSE /\ metrics' = metrics
            /\ pc' = "raised"
            /\ raised' = "TypeError"
    /\ UNCHANGED <<impl, FMP_API_KEY, forced_name, upstream, income, balance,
                   cashflow, profile, q, calc, sub_scores>>
    /\ UNCHANGED <<request, calls>>
    /\ UNCHANGED <<body, files, suspended>>

(***************************************************************************)
(* Inputs                                                                  *)
(***************************************************************************)
\* largest amount of the input grid, in units of 0.5e9
MaxAmount == 2

\* the quantities of the two worked examples, in units of 0.5e9
EndToEndExample ==
    [revenue |-> 200, ebitda |-> 60, ebit |-> 50, interest_expense |-> 4,
     operating_cash_flow |-> 40, capex |-> -10, change_in_wc |-> 0,
     short_term_debt |-> 6, long_term_debt |-> 20]

FallbackExample ==
    [revenue |-> 200, ebitda |-> 60, ebit |-> 20, interest_expense |-> 4,
     operating_cash_flow |-> 0, capex |-> -2, change_in_wc |-> 1,
     short_term_debt |-> 6, long_term_debt |-> 20]

\* capex is the raw capitalExpenditure cell, an outflow when negative
Grid ==
    [revenue : {1},
     ebitda : {-1, 0, MaxAmount},
     ebit : {-1, 0, MaxAmount},
     interest_expense : {-1, 0, 1},
     operating_cash_flow : {-1, 0, MaxAmount},
     capex : {-1, 1},
     change_in_wc : {0, 1},
     short_term_debt : {-1, 0, 1},
     long_term_debt : {0, MaxAmount}]

Examples == {EndToEndExample, FallbackExample}

\* the calls: the amounts the provider reports and the forced_name argument
Calls ==
    [amounts : Grid, forced_name : {<<>>}]
    \cup [amounts : Examples, forced_name : {<<>>, ForcedName}]

\* the provider's answers for amounts a: FMP's JSON records
FmpPayload(a) ==
    [income |-> ("calendarYear" :> Str(Y2023)) @@ ("date" :> Str(Date2023))
                @@ ("revenue" :> Num(a.revenue)) @@ ("ebitda" :> Num(a.ebitda))
                @@ ("ebit" :> Num(a.ebit))
                @@ ("interestExpense" :> Num(a.interest_expense)),
     balance |-> ("shortTermDebt" :> Num(a.short_term_debt))
                 @@ ("longTermDebt" :> Num(a.long_term_debt)),
     cashflow |-> ("netCashProvidedByOperatingActivities"
                       :> Num(a.operating_cash_flow))
                  @@ ("capitalExpenditure" :> Num(a.capex))
                  @@ ("changeInWorkingCapital" :> Num(a.change_in_wc)),
     profile |-> ("companyName" :> Str(AcmeCorp))]

\* the provider's answers for amounts a: yfinance's frames
YfPayload(a) ==
    [income |-> Frame(Y2023,
                    ("Total Revenue" :> Num(a.revenue))
                    @@ ("EBITDA" :> Num(a.ebitda)) @@ ("EBIT" :> Num(a.ebit))
                    @@ ("Interest Expense" :> Num(a.interest_expense))),
     balance |-> Frame(Y2023,
                    ("Short Term Debt" :> Num(a.short_term_debt))
                    @@ ("Long Term Debt" :> Num(a.long_term_debt))),
     cashflow |-> Frame(Y2023,
                    ("Operating Cash Flow" :> Num(a.operating_cash_flow))
                    @@ ("Capital Expenditures" :> Num(a.capex))
                    @@ ("Change In Working Capital" :> Num(a.change_in_wc))),
     profile |-> ("longName" :> Str(AcmeCorp))]

Payload(i, a) == IF i = "fmp" THEN FmpPayload(a) ELSE YfPayload(a)

(***************************************************************************)
(* The pipeline: one call of fetch_credit_metrics_for_symbol (fmp),        *)
(* fetch_credit_metrics_for_ticker (llm) or fetch_credit_metrics (yf)      *)
(***************************************************************************)
Init ==
    /\ impl \in Impls
    /\ pc = IF impl = "fmp" THEN "income" ELSE "yf"
    /\ FMP_API_KEY \in (IF impl = "fmp" THEN BOOLEAN ELSE {FALSE})
    /\ \E c \in Calls :
         /\ impl = "yf" => c.forced_name = <<>>
         /\ forced_name = c.forced_name
         /\ upstream = Payload(impl, c.amounts)
    /\ income = EmptyDict /\ balance = EmptyDict /\ cashflow = EmptyDict
    /\ profile = EmptyDict
    /\ q = <<>> /\ calc = <<>> /\ metrics = <<>> /\ sub_scores = <<>>
    /\ raised = ""
    /\ BareCall /\ calls = NoCalls

Next ==
    \/ fetch_fmp_income_statement
    \/ fetch_fmp_balance_sheet
    \/ fetch_fmp_cash_flow
    \/ fetch_fmp_profile
    \/ yf_fetch
    \/ extract
    \/ calculate
    \/ construct
    \/ compute_score

Spec == Init /\ [][Next]_vars

(***************************************************************************)
(* compute_score called on its own: on a record with any four ratios, and  *)
(* on the records the calculator builds from the grid amounts              *)
(***************************************************************************)
\* largest finite ratio handed to compute_score directly
TopRatio == 9

DebtEbitdaInputs ==
    {NegInf, Inf, R(TopRatio)}
    \cup {Frac(k, 2) : k \in {-2, 0, 2, 4, 5, 6, 7, 8, 9, 10, 11}}

InterestCoverageInputs ==
    {NegInf, Inf, R(TopRatio)}
    \cup {Frac(k, 2) : k \in {2, 3, 4, 6, 7, 10, 11, 16}}

DscrInputs ==
    {NegInf, Inf, R(TopRatio)}
    \cup {Frac(k, 100) : k \in {0, 100, 105, 110, 140, 150, 180}}

FcfToDebtInputs ==
    {NegInf, Inf, R(TopRatio)}
    \cup {Frac(k, 100) : k \in {-5, 3, 5, 8, 15, 20, 25}}

RatioInputs ==
    [fcf : {R(0)}, fcf_to_debt : FcfToDebtInputs,
     debt_to_ebitda : DebtEbitdaInputs,
     interest_coverage : InterestCoverageInputs, dscr : DscrInputs]

\* a record whose amounts are all zero
ZeroQuantities ==
    [company_name |-> SYMBOL, fiscal_year |-> <<>>, revenue |-> 0,
     ebitda |-> 0, ebit |-> 0, interest_expense |-> 0,
     operating_cash_flow |-> 0, capex |-> 0, change_in_wc |-> 0,
     short_term_debt |-> 0, long_term_debt |-> 0, total_debt |-> 0]

\* the quantities extracted from grid amounts a (capex as a magnitude)
GridQuantities(a) ==
    [company_name |-> SYMBOL, fiscal_year |-> Y2023, revenue |-> a.revenue,
     ebitda |-> a.ebitda, ebit |-> a.ebit,
     interest_expense |-> a.interest_expense,
     operating_cash_flow |-> a.operating_cash_flow, capex |-> Abs(a.capex),
     change_in_wc |-> a.change_in_wc, short_term_debt |-> a.short_term_debt,
     long_term_debt |-> a.long_term_debt,
     total_debt |-> a.short_term_debt + a.long_term_debt]

\* compute_score is the same text in the three files; the record is built
\* as by credit_agent_llm.py, whose constructor takes the fields
InitScore ==
    /\ impl = "llm"
    /\ pc = "score"
    /\ FMP_API_KEY = FALSE
    /\ forced_name = <<>>
    /\ upstream = EmptyDict
    /\ income = EmptyDict /\ balance = EmptyDict /\ cashflow = EmptyDict
    /\ profile = EmptyDict
    /\ \/ \E r \in RatioInputs :
            /\ q = <<ZeroQuantities>>
            /\ calc = <<r>>
       \/ \E a \in Grid \cup Examples :
            /\ q = <<GridQuantities(a)>>
            /\ calc = <<Ratios(GridQuantities(a))>>
    /\ metrics = <<CreditMetrics(q[1], calc[1])>>
    /\ sub_scores = <<>>
    /\ raised = ""
    /\ BareCall /\ calls = [NoCalls EXCEPT !["yf"] = <<"ok">>]

NextScore == compute_score

SpecScore == InitScore /\ [][NextScore]_vars

(***************************************************************************)
(* Properties                                                              *)
(***************************************************************************)
Scored == pc = "done"
\* the calculator has run and returned
Calculated == calc # <<>>

\* C1: after compute_score the stored score is exactly the sum of the four
\* sub-scores, each sub-score is the one of its own ratio and lies in
\* 1..5, and the score lies in 4..20, for finite and infinite ratios.
ScoreIsSumOfSubScores ==
    Scored =>
        LET m == metrics[1]
            s == sub_scores[1]
        IN  /\ s.debt_ebitda_score \in 1 .. 5
            /\ s.ic_score \in 1 .. 5
            /\ s.dscr_score \in 1 .. 5
            /\ s.fcf_score \in 1 .. 5
            /\ s.debt_ebitda_score = debt_ebitda_score(m.debt_to_ebitda)
            /\ s.ic_score = ic_score(m.interest_coverage)
            /\ s.dscr_score = dscr_score(m.dscr)
            /\ s.fcf_score = fcf_score(m.fcf_to_debt)
            /\ m.score = s.debt_ebitda_score + s.ic_score + s.dscr_score
                         + s.fcf_score
            /\ m.score \in 4 .. 20

\* a scored record with infinite and finite ratios whose sub-scores differ
ScoreIsSumWitness ==
    /\ Scored
    /\ metrics[1].debt_to_ebitda = Inf
    /\ metrics[1].interest_coverage = NegInf
    /\ metrics[1].dscr = Frac(3, 2)
    /\ metrics[1].fcf_to_debt = Frac(1, 5)
    /\ sub_scores[1] = [debt_ebitda_score |-> 1, ic_score |-> 1,
                        dscr_score |-> 4, fcf_score |-> 4]
    /\ metrics[1].score = 10

\* C2: the bucket written is decided by the score alone: >= 17 Low,
\* 13..16 Moderate, 9..12 Elevated, <= 8 High; it is one of the four labels.
BucketFollowsScore ==
    Scored =>
        LET m == metrics[1]
        IN  /\ m.score >= 17 => m.rating_bucket = "Low credit risk"
            /\ m.score \in 13 .. 16 => m.rating_bucket = "Moderate credit risk"
            /\ m.score \in 9 .. 12 => m.rating_bucket = "Elevated credit risk"
            /\ m.score <= 8 => m.rating_bucket = "High credit risk"
            /\ m.rating_bucket \in {"Low credit risk", "Moderate credit risk",
                                    "Elevated credit risk", "High credit risk"}

\* a record scored exactly 13, the lowest Moderate score
BucketBoundaryWitness ==
    /\ Scored
    /\ metrics[1].score = 13
    /\ metrics[1].rating_bucket = "Moderate credit risk"

\* the extraction has run, so every upstream fetch returned a record, and
\* the calculator is not still to run
PastCalculation == q # <<>> /\ pc # "calc"

InfiniteRatioScoresFive ==
    Scored =>
        LET m == metrics[1]
            s == sub_scores[1]
            x == q[1]
        IN  /\ m.interest_coverage = Inf => s.ic_score = 5
            /\ m.dscr = Inf => s.dscr_score = 5
            /\ m.fcf_to_debt = Inf => s.fcf_score = 5
            /\ x.interest_expense = 0
                => (m.interest_coverage = Inf /\ s.ic_score = 5)
            /\ Abs(x.interest_expense) + x.short_term_debt <= 0
                => (m.dscr = Inf /\ s.dscr_score = 5)
            /\ x.total_debt <= 0 => (m.fcf_to_debt = Inf /\ s.fcf_score = 5)

\* a loss-making company without debt or interest gets 5 on all three
InfiniteRatioWitness ==
    /\ Scored
    /\ q[1].interest_expense = 0 /\ q[1].short_term_debt < 0
    /\ q[1].total_debt < 0
    /\ q[1].ebit < 0 /\ q[1].operating_cash_flow < 0
    /\ Lt(metrics[1].fcf, R(0))
    /\ sub_scores[1].ic_score = 5
    /\ sub_scores[1].dscr_score = 5
    /\ sub_scores[1].fcf_score = 5

\* C5: the debt_to_ebitda sub-score is 5 for a value <= 0 and for a value
\* in (0, 2), 4 in [2, 3), 3 in [3, 4), 2 in [4, 5) and 1 from 5 upwards;
\* positive debt over negative EBITDA scores 5.
DebtEbitdaStepFunction ==
    Scored =>
        LET d == metrics[1].debt_to_ebitda
            s == sub_scores[1].debt_ebitda_score
        IN  /\ Le(d, R(0)) => s = 5
            /\ (Gt(d, R(0)) /\ Lt(d, R(2))) => s = 5
            /\ (Ge(d, R(2)) /\ Lt(d, R(3))) => s = 4
            /\ (Ge(d, R(3)) /\ Lt(d, R(4))) => s = 3
            /\ (Ge(d, R(4)) /\ Lt(d, R(5))) => s = 2
            /\ Ge(d, R(5)) => s = 1
            /\ (metrics[1].total_debt > 0 /\ metrics[1].ebitda < 0) => s = 5

\* debt_to_ebitda exactly 2 scores 4
DebtEbitdaBoundaryWitness ==
    /\ Scored
    /\ metrics[1].debt_to_ebitda = R(2)
    /\ sub_scores[1].debt_ebitda_score = 4

\* C6: interest_coverage > 8, > 5, > 3, > 1.5 score 5, 4, 3, 2, else 1;
\* dscr > 1.8, > 1.4, > 1.1, > 1.0 likewise; fcf_to_debt > 0.25, > 0.15,
\* > 0.08, > 0.03 likewise; a value equal to a threshold takes the lower
\* score.
HigherIsBetterStepFunctions ==
    Scored =>
        LET m == metrics[1]
            s == sub_scores[1]
            Step(v, t5, t4, t3, t2) ==
                IF Gt(v, t5) THEN 5
                ELSE IF Gt(v, t4) THEN 4
                ELSE IF Gt(v, t3) THEN 3
                ELSE IF Gt(v, t2) THEN 2
                ELSE 1
        IN  /\ s.ic_score = Step(m.interest_coverage,
                                 R(8), R(5), R(3), Frac(3, 2))
            /\ s.dscr_score = Step(m.dscr, Frac(9, 5), Frac(7, 5),
                                   Frac(11, 10), R(1))
            /\ s.fcf_score = Step(m.fcf_to_debt, Frac(1, 4), Frac(3, 20),
                                  Frac(2, 25), Frac(3, 100))
            /\ m.interest_coverage = R(8) => s.ic_score = 4
            /\ m.interest_coverage = Frac(3, 2) => s.ic_score = 1
            /\ m.dscr = Frac(9, 5) => s.dscr_score = 4
            /\ m.dscr = R(1) => s.dscr_score = 1
            /\ m.fcf_to_debt = Frac(1, 4) => s.fcf_score = 4
            /\ m.fcf_to_debt = Frac(3, 100) => s.fcf_score = 1

\* all three ratios exactly on their top threshold score 4
ThresholdWitness ==
    /\ Scored
    /\ metrics[1].interest_coverage = R(8)
    /\ metrics[1].dscr = Frac(9, 5)
    /\ metrics[1].fcf_to_debt = Frac(1, 4)
    /\ sub_scores[1].ic_score = 4
    /\ sub_scores[1].dscr_score = 4
    /\ sub_scores[1].fcf_score = 4

\* C7: fcf_to_debt = fcf / total_debt when total_debt > 0, debt_to_ebitda =
\* total_debt / ebitda when ebitda # 0, interest_coverage = ebit /
\* |interest_expense| when interest_expense # 0, dscr = operating_cash_flow
\* / (|interest_expense| + short_term_debt) when that is > 0; otherwise the
\* ratio is +infinity.  No division by zero is raised and no ratio is
\* -infinity.
RatiosAsSpecified ==
    /\ raised # "ZeroDivisionError"
    /\ PastCalculation =>
        /\ Calculated
        /\ LET x == q[1]
               r == calc[1]
               d == Abs(x.interest_expense) + x.short_term_debt
           IN  /\ r.fcf_to_debt =
                    IF x.total_debt > 0
                    THEN Frac(r.fcf.n, r.fcf.d * x.total_debt) ELSE Inf
               /\ r.debt_to_ebitda =
                    IF x.ebitda # 0 THEN Frac(x.total_debt, x.ebitda) ELSE Inf
               /\ r.interest_coverage =
                    IF x.interest_expense # 0
                    THEN Frac(x.ebit, Abs(x.interest_expense)) ELSE Inf
               /\ r.dscr =
                    IF d > 0 THEN Frac(x.operating_cash_flow, d) ELSE Inf
               /\ \A k \in DOMAIN r : r[k] # NegInf

\* zero EBITDA next to a negative interest expense and positive debt
RatiosWitness ==
    /\ Calculated
    /\ q[1].ebitda = 0 /\ q[1].total_debt > 0
    /\ q[1].interest_expense < 0 /\ q[1].ebit > 0
    /\ calc[1].debt_to_ebitda = Inf
    /\ calc[1].interest_coverage = R(q[1].ebit)
    /\ IsFinite(calc[1].fcf_to_debt)
    /\ IsFinite(calc[1].dscr)

\* C8: fcf = ebit * 0.75 - capex - change_in_wc when operating_cash_flow is
\* 0 and ebit is not; otherwise fcf = operating_cash_flow - capex.  With
\* operating_cash_flow 0, ebit 10e9, capex 1e9, change_in_wc 0.5e9 (20, 2
\* and 1 units) fcf is 6e9 (12 units).
FcfAsSpecified ==
    Calculated =>
        LET x == q[1]
            f == calc[1].fcf
        IN  /\ (x.operating_cash_flow = 0 /\ x.ebit # 0)
                => f = Frac(3 * x.ebit - 4 * x.capex - 4 * x.change_in_wc, 4)
            /\ ~(x.operating_cash_flow = 0 /\ x.ebit # 0)
                => f = Frac(x.operating_cash_flow - x.capex, 1)
            /\ (/\ x.operating_cash_flow = 0 /\ x.ebit = 20
                /\ x.capex = 2 /\ x.change_in_wc = 1) => f = R(12)

\* the fallback example has been calculated
FcfFallbackWitness ==
    /\ Calculated
    /\ q[1].operating_cash_flow = 0 /\ q[1].ebit = 20
    /\ q[1].capex = 2 /\ q[1].change_in_wc = 1
    /\ calc[1].fcf = R(12)

\* C9: fetch_credit_metrics_for_symbol raises nothing of its own: once the
\* four fetches have returned valid records nothing is raised, and the call
\* ends with a complete CreditMetrics record.
PipelineRaisesNothingOfItsOwn ==
    impl = "fmp" =>
        /\ q # <<>> => raised = ""
        /\ (q # <<>> /\ pc \in {"done", "raised"}) =>
            /\ metrics # <<>>
            /\ metrics[1].score \in 4 .. 20
            /\ metrics[1].rating_bucket # ""

\* the quantities the end-to-end example must yield, in units of 0.5e9
EndToEndResult(m) ==
    /\ m.total_debt = 26
    /\ m.fcf = R(30)
    /\ m.fcf_to_debt = Frac(15, 13)
    /\ m.debt_to_ebitda = Frac(13, 30)
    /\ m.interest_coverage = Frac(25, 2)
    /\ m.dscr = R(4)
    /\ m.score = 20
    /\ m.rating_bucket = "Low credit risk"

\* C10: for the end-to-end example the pipeline yields total_debt 13e9, fcf
\* 15e9, the four ratios with sub-score 5 each, score 20 and the bucket
\* "Low credit risk".
EndToEndExampleYields ==
    (/\ upstream = Payload(impl, EndToEndExample)
     /\ q # <<>> /\ pc \in {"done", "raised"})
        => (/\ metrics # <<>>
            /\ sub_scores # <<>>
            /\ EndToEndResult(metrics[1])
            /\ sub_scores[1] = [debt_ebitda_score |-> 5, ic_score |-> 5,
                                dscr_score |-> 5, fcf_score |-> 5])

(***************************************************************************)
(* The extractor on its own: statement records in which fields are absent, *)
(* null, zero or aliased                                                   *)
(***************************************************************************)
\* marks a key left out of a record; never a value of a record
Absent == [t |-> "absent", v |-> 0, s |-> <<>>]

\* the record {key: v}, or {} when the key is left out
Entry(key, v) == IF v = Absent THEN EmptyDict ELSE (key :> v)

Missing(v) == {Absent, Null, Num(v)}

ShortName == <<"A", "c", "m", "e", " ", "C", "o">>

\* FMP records in which any of the numeric fields is absent or null
FmpMissingFields ==
    {[income |-> Entry("calendarYear", Str(Y2023)) @@ Entry("revenue", f.revenue)
                 @@ Entry("ebitda", f.ebitda) @@ Entry("ebit", f.ebit)
                 @@ Entry("interestExpense", f.interest_expense),
      balance |-> Entry("shortTermDebt", f.short_term_debt)
                  @@ Entry("longTermDebt", f.long_term_debt),
      cashflow |-> Entry("netCashProvidedByOperatingActivities",
                         f.operating_cash_flow)
                   @@ Entry("capitalExpenditure", f.capex)
                   @@ Entry("changeInWorkingCapital", f.change_in_wc),
      profile |-> Entry("companyName", Str(AcmeCorp)),
      forced_name |-> <<>>] :
     f \in [revenue : {Null, Num(9)}, ebitda : Missing(3), ebit : Missing(2),
            interest_expense : Missing(1), operating_cash_flow : Missing(4),
            capex : Missing(-500), change_in_wc : Missing(1),
            short_term_debt : Missing(5), long_term_debt : Missing(6)]}

\* FMP records in which the aliased fields are absent, null, zero or set
FmpAliases ==
    {[income |-> Entry("calendarYear", Str(Y2023)) @@ Entry("ebitda", Num(3))
                 @@ Entry("ebit", Num(2)) @@ Entry("interestExpense", Num(1)),
      balance |-> Entry("shortTermDebt", f.std1)
                  @@ Entry("shortTermBorrowings", f.std2)
                  @@ Entry("longTermDebt", Num(6)),
      cashflow |-> Entry("netCashProvidedByOperatingActivities", f.ocf1)
                   @@ Entry("netCashProvidedByOperatingActivitiesReported",
                            f.ocf2)
                   @@ Entry("capitalExpenditure", f.capex),
      profile |-> EmptyDict,
      forced_name |-> <<>>] :
     f \in [ocf1 : {Absent, Null, Num(0), Num(5)},
            ocf2 : {Absent, Null, Num(0), Num(7)},
            std1 : {Absent, Null, Num(0), Num(5)},
            std2 : {Absent, Null, Num(0), Num(7)},
            capex : {Num(-500), Num(500)}]}

\* FMP records in which the year, date and name fields are absent, null,
\* empty or set, with and without a forced name
FmpNames ==
    {[income |-> Entry("calendarYear", f.calendarYear) @@ Entry("date", f.date)
                 @@ Entry("ebitda", Num(3)),
      balance |-> Entry("longTermDebt", Num(6)),
      cashflow |-> Entry("capitalExpenditure", Num(-500)),
      profile |-> Entry("companyName", f.companyName),
      forced_name |-> f.forced_name] :
     f \in [calendarYear : {Absent, Null, Str(<<>>), Str(Y2023)},
            date : {Absent, Null, Str(<<"2", "0">>), Str(Date2023)},
            companyName : {Absent, Null, Str(<<>>), Str(AcmeCorp)},
            forced_name : {<<>>, ForcedName}]}

\* yfinance frames and info in which the capital-expenditure row and the
\* name fields vary
YfVariants ==
    {[income |-> Frame(Y2023, Entry("EBITDA", Num(3)) @@ Entry("EBIT", Num(2))),
      balance |-> Frame(Y2023, Entry("Long Term Debt", Num(6))),
      cashflow |-> Frame(Y2023,
                     Entry("Operating Cash Flow", Num(4))
                     @@ Entry("Capital Expenditures", f.capex1)
                     @@ Entry("Purchase Of Property Plant And Equipment",
                              f.capex2)),
      profile |-> Entry("longName", f.longName)
                  @@ Entry("shortName", f.shortName),
      forced_name |-> f.forced_name] :
     f \in [capex1 : {Absent, Num(-500), Num(0), Num(500)},
            capex2 : {Absent, Num(-300)},
            longName : {Absent, Null, Str(AcmeCorp)},
            shortName : {Absent, Str(ShortName)},
            forced_name : {<<>>, ForcedName}]}

\* the locals of the pipeline function when the extraction begins
InitExtract ==
    /\ impl \in Impls
    /\ pc = "extract"
    /\ FMP_API_KEY = (impl = "fmp")
    /\ upstream = EmptyDict
    /\ \E b \in (IF impl = "fmp"
                 THEN FmpMissingFields \cup FmpAliases \cup FmpNames
                 ELSE YfVariants) :
         /\ impl = "yf" => b.forced_name = <<>>
         /\ income = b.income /\ balance = b.balance
         /\ cashflow = b.cashflow /\ profile = b.profile
         /\ forced_name = b.forced_name
    /\ q = <<>> /\ calc = <<>> /\ metrics = <<>> /\ sub_scores = <<>>
    /\ raised = ""
    /\ BareCall
    /\ calls = [e \in Endpoints |->
                   IF (impl = "fmp") = (e \in {"income", "balance", "cashflow",
                                                "profile"}) /\ e # "search"
                   THEN <<"ok">> ELSE <<>>]

NextExtract == extract

SpecExtract == InitExtract /\ [][NextExtract]_vars

(***************************************************************************)
(* Properties of the extraction                                            *)
(***************************************************************************)
Extracted == q # <<>>

\* C11: in the FMP extractor the stored capex is the magnitude of the raw
\* capitalExpenditure and never negative: a negative raw value is negated, a
\* non-negative one is kept, so -500 and +500 both give 500
FmpCapexIsMagnitude ==
    (impl = "fmp" /\ Extracted) =>
        LET c == get(cashflow, "capitalExpenditure", Null)
        IN  /\ q[1].capex >= 0
            /\ c.t = "num" /\ c.v < 0 => q[1].capex = -c.v
            /\ c.t = "num" /\ c.v >= 0 => q[1].capex = c.v
            /\ c \in {Num(-500), Num(500)} => q[1].capex = 500

FmpCapexNegatedWitness ==
    /\ impl = "fmp" /\ Extracted
    /\ get(cashflow, "capitalExpenditure", Null) = Num(-500)
    /\ q[1].capex = 500

\* C12: in the yfinance extractors the stored capex is the non-negative
\* magnitude of the raw capital-expenditure cell, whatever its sign
YfCapexIsMagnitude ==
    (impl \in {"llm", "yf"} /\ Extracted) =>
        LET c == safe_get(cashflow,
                          <<"Capital Expenditures",
                            "Purchase Of Property Plant And Equipment">>)
        IN  q[1].capex >= 0 /\ q[1].capex = Abs(c.v)

\* the value of the first alias that holds a number, 0.0 when none does
FirstPresent(rec, aliases) ==
    LET a1 == get(rec, aliases[1], Null)
        a2 == get(rec, aliases[2], Null)
    IN  IF a1.t = "num" THEN a1.v ELSE IF a2.t = "num" THEN a2.v ELSE 0

\* C13: in the FMP extractor operating cash flow and short-term debt take
\* the value of the first alias that is present and non-null, a value of 0
\* included
FirstPresentAliasWins ==
    (impl = "fmp" /\ Extracted) =>
        /\ q[1].operating_cash_flow =
               FirstPresent(cashflow,
                   <<"netCashProvidedByOperatingActivities",
                     "netCashProvidedByOperatingActivitiesReported">>)
        /\ q[1].short_term_debt =
               FirstPresent(balance, <<"shortTermDebt", "shortTermBorrowings">>)

\* the value of a numeric field, 0.0 when the key is absent or null
ValueOrZero(rec, key) ==
    IF key \in DOMAIN rec /\ rec[key].t = "num" THEN rec[key].v ELSE 0

\* C14: in the FMP extractor an absent or null numeric field raises nothing
\* and reads as 0.0; every extracted quantity is a number and total_debt is
\* short_term_debt + long_term_debt
MissingFieldsDefaultToZero ==
    impl = "fmp" =>
        /\ raised # "ValueError"
        /\ (pc # "extract" /\ raised = "") => Extracted
        /\ Extracted =>
            /\ \A k \in {"revenue", "ebitda", "ebit", "interest_expense",
                         "operating_cash_flow", "capex", "change_in_wc",
                         "short_term_debt", "long_term_debt", "total_debt"} :
                   q[1][k] \in Int
            /\ q[1].revenue = ValueOrZero(income, "revenue")
            /\ q[1].ebitda = ValueOrZero(income, "ebitda")
            /\ q[1].ebit = ValueOrZero(income, "ebit")
            /\ q[1].interest_expense = ValueOrZero(income, "interestExpense")
            /\ q[1].change_in_wc = ValueOrZero(cashflow, "changeInWorkingCapital")
            /\ q[1].long_term_debt = ValueOrZero(balance, "longTermDebt")
            /\ q[1].capex = Abs(ValueOrZero(cashflow, "capitalExpenditure"))
            /\ q[1].total_debt = q[1].short_term_debt + q[1].long_term_debt

MissingFieldsWitness ==
    /\ impl = "fmp" /\ Extracted
    /\ "ebitda" \notin DOMAIN income
    /\ get(income, "interestExpense", Num(1)) = Null
    /\ get(cashflow, "capitalExpenditure", Num(1)) = Null
    /\ "shortTermDebt" \notin DOMAIN balance
    /\ get(balance, "longTermDebt", Null) = Num(6)
    /\ q[1].ebitda = 0 /\ q[1].interest_expense = 0 /\ q[1].capex = 0
    /\ q[1].total_debt = 6

\* C15: in the FMP extractor fiscal_year is calendarYear when present, else
\* the first four characters of date, else the empty string, and resolving
\* it raises nothing whichever of the two fields are absent or null
FiscalYearNeverRaises ==
    (impl = "fmp" /\ pc # "extract") =>
        LET y == get(income, "calendarYear", Null)
            d == get(income, "date", Null)
        IN  /\ raised = ""
            /\ Extracted
            /\ q[1].fiscal_year = IF y.t = "str" /\ y.s # <<>> THEN y.s
                                  ELSE IF d.t = "str" THEN First4(d.s)
                                  ELSE <<>>

\* C16: company_name is the override name when one is given, else the
\* profile's name field when it holds a name, else the symbol; it is never
\* empty
CompanyNameResolution ==
    Extracted =>
        LET named(v) == v.t = "str" /\ v.s # <<>>
            name == get(profile,
                        IF impl = "fmp" THEN "companyName" ELSE "longName",
                        Null)
            short == get(profile, "shortName", Null)
        IN  /\ q[1].company_name # <<>>
            /\ q[1].company_name =
                   IF forced_name # <<>> THEN forced_name
                   ELSE IF named(name) THEN name.s
                   ELSE IF impl # "fmp" /\ named(short) THEN short.s
                   ELSE SYMBOL

CompanyNameOverrideWitness ==
    /\ Extracted /\ impl = "fmp"
    /\ forced_name = ForcedName
    /\ get(profile, "companyName", Null) = Str(AcmeCorp)
    /\ q[1].company_name = ForcedName
    /\ ForcedName # AcmeCorp

(***************************************************************************)
(* The requests around the pipeline: the /report route of app.py and the   *)
(* main() of credit_agent_fmp.py and of credit_agent_llm.py                *)
(***************************************************************************)
Entries == {"report", "download_pdf", "fmp_main", "llm_main"}

impl_of(e) == IF e = "llm_main" THEN "llm" ELSE "fmp"

\* str.strip(), str.upper() and str.isupper() on the characters in use
RECURSIVE lstrip(_)
lstrip(x) == IF x # <<>> /\ Head(x) = " " THEN lstrip(Tail(x)) ELSE x

RECURSIVE rstrip(_)
rstrip(x) ==
    IF x # <<>> /\ x[Len(x)] = " " THEN rstrip(SubSeq(x, 1, Len(x) - 1)) ELSE x

strip(x) == rstrip(lstrip(x))

upper_char(c) ==
    CASE c = "a" -> "A" [] c = "c" -> "C" [] c = "e" -> "E" [] c = "m" -> "M"
      [] OTHER -> c

upper(x) == [i \in 1..Len(x) |-> upper_char(x[i])]

isupper(x) ==
    /\ \E i \in 1..Len(x) : x[i] \in {"A", "C", "E", "M"}
    /\ \A i \in 1..Len(x) : x[i] \notin {"a", "c", "e", "m"}

\* the queries: every one that is not blank names the company whose symbol
\* is SYMBOL
Queries ==
    {<<>>, <<" ">>, SYMBOL, <<"A", "C", "M", "E", " ">>,
     <<"a", "c", "m", "e">>, <<" ", "A", "c", "m", "e", " ">>}

\* how a search request ends; the first result of an answer that has one
\* is upstream.search
SearchOutcomes == {"ok", "http_error", "empty", "not_json"}

\* data[0] of FMP's /api/v3/search
FmpSearchResults ==
    {Entry("symbol", f.symbol) @@ Entry("name", f.name) :
     f \in [symbol : {Absent, Str(SYMBOL)},
            name : {Absent, Null, Str(AcmeCorp)}]}

\* quotes[0] of Yahoo's /v1/finance/search
YahooSearchResults ==
    {Entry("symbol", f.symbol) @@ Entry("shortname", f.shortname)
     @@ Entry("longname", f.longname) :
     f \in [symbol : {Absent, Null, Str(SYMBOL)},
            shortname : {Absent, Str(ShortName)},
            longname : {Absent, Str(AcmeCorp)}]}

\* the pair a resolver returns when it falls back on the query
fallback(raw) == [symbol |-> Str(upper(raw)), name |-> Str(raw)]

\* the positional parameters of resolve_symbol, and the positional
\* arguments its callers pass
resolve_symbol_params == 1

resolve_symbol_args(e) == IF e = "report" THEN 2 ELSE 1

resolve_symbol_keeps_case(raw_query, o, best) ==
    [symbol |-> Str(strip(raw_query)), name |-> Str(strip(raw_query))]

\* resolve_symbol(query) once the search has answered o (not_json: the
\* exception of .json() is caught like any other); best is data[0]
resolve_symbol_returns(raw_query, o, best) ==
    LET raw == strip(raw_query)
        symbol == get(best, "symbol", Str(upper(raw)))
    IN  IF o # "ok" THEN fallback(raw)
        ELSE [symbol |-> symbol, name |-> get(best, "name", symbol)]

\* the call fetch_credit_metrics_for_symbol(...) of the caller binds
\* forced_name twice in /report
fetch_call_raises(e) == e = "report"

resolve_symbol ==
    /\ impl = "fmp" /\ pc = "resolve"
    /\ IF ~FMP_API_KEY
       THEN /\ raised' = "RuntimeError" /\ pc' = "raised"
            /\ UNCHANGED <<resolved, forced_name, calls>>
       ELSE \E o \in SearchOutcomes \ {"not_json"} :
              LET r == resolve_symbol_returns(query, o, upstream.search)
              IN  /\ calls' = Called("search", o)
                  /\ resolved' = <<r>>
                  /\ IF fetch_call_raises(entry)
                     THEN /\ raised' = "TypeError" /\ pc' = "raised"
                          /\ UNCHANGED forced_name
                     ELSE /\ raised' = "" /\ pc' = "income"
                          /\ forced_name' = r.name.s
    /\ UNCHANGED <<impl, FMP_API_KEY, upstream, income, balance, cashflow,
                   profile, q, calc, metrics, sub_scores, entry, query,
                   OPENAI_API_KEY, error, memo, status>>
    /\ UNCHANGED <<body, files, suspended>>

ticker_like_any_case(raw) ==
    /\ \A i \in 1..Len(raw) : raw[i] # " "
    /\ 1 <= Len(raw) /\ Len(raw) <= 6

\* raw.isupper() and " " not in raw and 1 <= len(raw) <= 6
ticker_like(raw) ==
    /\ isupper(raw)
    /\ \A i \in 1..Len(raw) : raw[i] # " "
    /\ 1 <= Len(raw) /\ Len(raw) <= 6

\* resolve_ticker_from_query(query) once the search has answered o with
\* quotes[0] = best; only called when no exception leaves it
resolve_ticker_returns(raw_query, o, best) ==
    LET raw == strip(raw_query)
        symbol == Or(get(best, "symbol", Null), Str(upper(raw)))
    IN  IF ticker_like(raw) THEN [symbol |-> Str(raw), name |-> Str(raw)]
        ELSE IF o # "ok" THEN fallback(raw)
        ELSE [symbol |-> symbol,
              name |-> Or(Or(get(best, "shortname", Null),
                             get(best, "longname", Null)), symbol)]

resolve_ticker_from_query ==
    /\ impl = "llm" /\ pc = "resolve"
    /\ \E o \in SearchOutcomes :
         LET r == resolve_ticker_returns(query, o, upstream.search)
             searched == ~ticker_like(strip(query))
         IN  /\ calls' = IF searched THEN Called("search", o) ELSE calls
             /\ IF searched /\ o = "not_json"
                THEN /\ raised' = "ValueError" /\ pc' = "raised"
                     /\ UNCHANGED <<resolved, forced_name>>
                ELSE /\ raised' = "" /\ pc' = "yf"
                     /\ resolved' = <<r>>
                     /\ forced_name' = r.name.s
    /\ UNCHANGED <<impl, FMP_API_KEY, upstream, income, balance, cashflow,
                   profile, q, calc, metrics, sub_scores, entry, query,
                   OPENAI_API_KEY, error, memo, status>>
    /\ UNCHANGED <<body, files, suspended>>

NoKeyError == "FMP_API_KEY environment variable is not set."
CouldNotFetch == "Could not fetch credit analysis"
MemoText == "memo"
ReportMemoFailed == "Note: Credit memo generation failed"
ReportNoMemoKey == "Note: Set OPENAI_API_KEY environment variable"
MainMemoFailed == "(Memo generation failed)"

\* report() of app.py up to and including its call of resolve_symbol
report ==
    /\ entry = "report" /\ pc = "request"
    /\ IF strip(query) = <<>>
       THEN /\ status' = "redirect" /\ pc' = "responded"
            /\ UNCHANGED <<error, raised>>
       ELSE IF ~FMP_API_KEY
       THEN /\ error' = NoKeyError /\ pc' = "render"
            /\ UNCHANGED <<status, raised>>
       ELSE IF resolve_symbol_args(entry) > resolve_symbol_params
       THEN /\ raised' = "TypeError" /\ pc' = "raised"
            /\ UNCHANGED <<status, error>>
       ELSE /\ pc' = "resolve"
            /\ UNCHANGED <<status, error, raised>>
    /\ UNCHANGED <<impl, FMP_API_KEY, forced_name, upstream, income, balance,
                   cashflow, profile, q, calc, metrics, sub_scores, entry,
                   query, OPENAI_API_KEY, resolved, memo, calls>>
    /\ UNCHANGED <<body, files, suspended>>

\* main() of credit_agent_fmp.py and credit_agent_llm.py up to its call of
\* the resolver
main ==
    /\ entry \in {"fmp_main", "llm_main"} /\ pc = "request"
    /\ IF impl = "fmp" /\ ~FMP_API_KEY
       THEN status' = "exit 1" /\ pc' = "responded"
       ELSE status' = status /\ pc' = "resolve"
    /\ UNCHANGED <<impl, FMP_API_KEY, forced_name, upstream, income, balance,
                   cashflow, profile, q, calc, metrics, sub_scores, raised,
                   entry, query, OPENAI_API_KEY, resolved, error, memo, calls>>
    /\ UNCHANGED <<body, files, suspended>>

\* the value of the environment variable FMP_API_KEY when it is set
ApiKeyValue == <<"k", "e", "y">>

MissingSymbol == "400 Missing symbol parameter"
KeyNotConfigured == "500 FMP_API_KEY not configured"
ErrorGeneratingPdf == "500 Error generating PDF"

\* download_pdf() of app.py up to its call of
\* fetch_credit_metrics_for_symbol(symbol, fmp_api_key): the key is the second
\* positional argument, which is the parameter forced_name
download_pdf ==
    /\ entry = "download_pdf" /\ pc = "request"
    /\ IF strip(query) = <<>>
       THEN /\ status' = MissingSymbol /\ pc' = "responded"
            /\ UNCHANGED forced_name
       ELSE IF ~FMP_API_KEY
       THEN /\ status' = KeyNotConfigured /\ pc' = "responded"
            /\ UNCHANGED forced_name
       ELSE /\ forced_name' = ApiKeyValue /\ pc' = "income"
            /\ UNCHANGED status
    /\ UNCHANGED <<impl, FMP_API_KEY, upstream, income, balance, cashflow,
                   profile, q, calc, metrics, sub_scores, raised, entry,
                   query, OPENAI_API_KEY, resolved, error, memo, calls>>
    /\ UNCHANGED <<body, files, suspended>>

except_Exception_pass ==
    /\ entry \in Entries /\ pc = "raised"
    /\ IF entry = "report"
       THEN error' = error /\ pc' = "render" /\ status' = status
       ELSE error' = error /\ pc' = "responded" /\ status' = "exit 1"
    /\ UNCHANGED <<impl, FMP_API_KEY, forced_name, upstream, income, balance,
                   cashflow, profile, q, calc, metrics, sub_scores, raised,
                   entry, query, OPENAI_API_KEY, resolved, memo, calls>>
    /\ UNCHANGED <<body, files, suspended>>

\* the except clause around the resolver and the pipeline
except_Exception ==
    /\ entry \in Entries /\ pc = "raised"
    /\ IF entry = "report"
       THEN error' = CouldNotFetch /\ pc' = "render" /\ status' = status
       ELSE IF entry = "download_pdf"
       THEN error' = error /\ pc' = "responded"
            /\ status' = ErrorGeneratingPdf
       ELSE error' = error /\ pc' = "responded" /\ status' = "exit 1"
    /\ UNCHANGED <<impl, FMP_API_KEY, forced_name, upstream, income, balance,
                   cashflow, profile, q, calc, metrics, sub_scores, raised,
                   entry, query, OPENAI_API_KEY, resolved, memo, calls>>
    /\ UNCHANGED <<body, files, suspended>>

\* the memo block of the caller: generate_credit_memo_with_llm(metrics)
\* returns a text or raises
generate_credit_memo_with_llm ==
    /\ entry \in Entries /\ pc = "done"
    /\ IF OPENAI_API_KEY
       THEN \E returns \in BOOLEAN :
              memo' = IF returns THEN MemoText
                      ELSE IF entry = "report" THEN ReportMemoFailed
                      ELSE IF entry = "download_pdf" THEN None
                      ELSE MainMemoFailed
       ELSE memo' = IF entry = "report" THEN ReportNoMemoKey ELSE None
    /\ pc' = IF entry = "report" THEN "render" ELSE "pdf"
    /\ UNCHANGED <<impl, FMP_API_KEY, forced_name, upstream, income, balance,
                   cashflow, profile, q, calc, metrics, sub_scores, raised,
                   entry, query, OPENAI_API_KEY, resolved, error, status,
                   calls>>
    /\ UNCHANGED <<body, files, suspended>>

\* the file a caller names for its report
filepath ==
    [dir |-> IF entry = "download_pdf" THEN "/tmp" ELSE ".",
     symbol |-> metrics[1].ticker]

\* what generate_pdf_report draws: the fields of the record and the memo
pdf_of(m, memo_text) == [metrics |-> m, memo |-> memo_text]

\* generate_pdf_report(metrics, memo_text, filepath) called by main() and by
\* download_pdf(): the file is written, the record only read
generate_pdf_report ==
    /\ entry \in Entries /\ pc = "pdf"
    /\ files' = [files EXCEPT ![filepath] = <<pdf_of(metrics[1], memo)>>]
    /\ body' = IF entry = "download_pdf" THEN body
               ELSE <<pdf_of(metrics[1], memo)>>
    /\ pc' = "render"
    /\ UNCHANGED <<impl, FMP_API_KEY, forced_name, upstream, income, balance,
                   cashflow, profile, q, calc, metrics, sub_scores, raised,
                   entry, query, OPENAI_API_KEY, resolved, error, memo, status,
                   calls, suspended>>

\* the last statement of the caller: render_template_string(...) of report(),
\* send_file(filepath) of download_pdf(), print(...) of main()
render ==
    /\ entry \in Entries /\ pc = "render"
    /\ status' = IF entry = "report" THEN "rendered"
                 ELSE IF entry = "download_pdf" THEN "200 pdf"
                 ELSE "pdf saved"
    /\ body' = IF entry = "download_pdf" THEN files[filepath] ELSE body
    /\ pc' = "responded"
    /\ UNCHANGED <<impl, FMP_API_KEY, forced_name, upstream, income, balance,
                   cashflow, profile, q, calc, metrics, sub_scores, raised,
                   entry, query, OPENAI_API_KEY, resolved, error, memo, calls,
                   files, suspended>>

\* the statement amounts of the requests
AppAmounts ==
    Examples \cup {a \in Grid : a.ebitda = 0 /\ a.ebit = 0 /\ a.capex = 1
                                /\ a.change_in_wc = 0 /\ a.long_term_debt = 0
                                /\ a.interest_expense = 0
                                /\ a.short_term_debt = 0}

InitApp ==
    /\ entry \in Entries
    /\ impl = impl_of(entry)
    /\ pc = "request"
    /\ FMP_API_KEY \in (IF impl = "fmp" THEN BOOLEAN ELSE {FALSE})
    /\ OPENAI_API_KEY \in BOOLEAN
    /\ query \in (IF entry \in {"report", "download_pdf"} THEN Queries
                  ELSE {x \in Queries : strip(x) # <<>>})
    /\ \E a \in AppAmounts,
          best \in (IF impl = "fmp" THEN FmpSearchResults
                    ELSE YahooSearchResults) :
         upstream = ("search" :> best) @@ Payload(impl, a)
    /\ forced_name = <<>>
    /\ income = EmptyDict /\ balance = EmptyDict /\ cashflow = EmptyDict
    /\ profile = EmptyDict
    /\ q = <<>> /\ calc = <<>> /\ metrics = <<>> /\ sub_scores = <<>>
    /\ raised = ""
    /\ resolved = <<>> /\ error = None /\ memo = None /\ status = ""
    /\ calls = NoCalls
    /\ Alone

NextApp ==
    \/ report
    \/ download_pdf
    \/ main
    \/ resolve_symbol
    \/ resolve_ticker_from_query
    \/ fetch_fmp_income_statement
    \/ fetch_fmp_balance_sheet
    \/ fetch_fmp_cash_flow
    \/ fetch_fmp_profile
    \/ yf_fetch
    \/ extract
    \/ calculate
    \/ construct
    \/ compute_score
    \/ except_Exception
    \/ generate_credit_memo_with_llm
    \/ generate_pdf_report
    \/ render

SpecApp == InitApp /\ [][NextApp]_vars

(***************************************************************************)
(* Properties of the requests                                              *)
(***************************************************************************)
Responded == pc = "responded"

\* the call of endpoint e was made and did not succeed
Failed(e) == calls[e] # <<>> /\ calls[e][1] # "ok"

\* the statement endpoints in the order the pipeline calls them, the profile
\* endpoint last
FetchOrder == <<"income", "balance", "cashflow", "profile">>

\* C17: a statement fetch that fails ends the request: no endpoint is called
\* twice, after a failed income, balance-sheet or cash-flow fetch no later
\* endpoint is called, nothing is extracted or calculated, no CreditMetrics
\* exists, main() exits with status 1, and a /report request ends with an
\* error message and no metrics
FetchFailureIsFatal ==
    /\ \A e \in Endpoints : Len(calls[e]) <= 1
    /\ \A i \in 1..3 :
         Failed(FetchOrder[i]) =>
             /\ \A j \in (i + 1)..4 : calls[FetchOrder[j]] = <<>>
             /\ q = <<>> /\ calc = <<>> /\ metrics = <<>> /\ sub_scores = <<>>
             /\ pc \in {"raised", "render", "responded"}
             /\ Responded =>
                    IF entry = "report" THEN error # None /\ status = "rendered"
                    ELSE IF entry = "download_pdf"
                    THEN status = ErrorGeneratingPdf /\ body = <<>>
                    ELSE status = "exit 1" /\ memo = None
    /\ (entry = "report" /\ Responded /\ status # "redirect") =>
           error # None /\ metrics = <<>> /\ status = "rendered"

FetchFailureWitness ==
    /\ entry = "fmp_main" /\ Responded
    /\ calls["income"] = <<"ok">> /\ calls["balance"] = <<"empty">>
    /\ calls["cashflow"] = <<>>
    /\ raised = "ValueError" /\ status = "exit 1"

\* no call of an upstream endpoint has failed
NothingFailed ==
    \A e \in Endpoints :
        calls[e] = <<>> \/ calls[e] = <<"ok">>
        \/ (e = "profile" /\ calls[e] = <<"empty">>)

\* C18: when the provider answers every call and the memo generation raises
\* or has no OPENAI_API_KEY, the request still ends with the scored
\* CreditMetrics, a rendered report or PDF and no error; the memo is a
\* placeholder note (None in main() without the key)
NarrativeFailureIsNotFatal ==
    (/\ entry \in {"report", "fmp_main", "llm_main"}
     /\ Responded /\ strip(query) # <<>>
     /\ impl = "fmp" => FMP_API_KEY
     /\ NothingFailed
     /\ memo # MemoText) =>
        /\ metrics # <<>> /\ sub_scores # <<>>
        /\ metrics[1].score = ScoreSum(sub_scores[1])
        /\ metrics[1].rating_bucket = bucket(metrics[1].score)
        /\ error = None
        /\ status = IF entry = "report" THEN "rendered" ELSE "pdf saved"
        /\ memo = IF ~OPENAI_API_KEY
                  THEN (IF entry = "report" THEN ReportNoMemoKey ELSE None)
                  ELSE (IF entry = "report" THEN ReportMemoFailed
                        ELSE MainMemoFailed)

\* C19: with FMP_API_KEY set, a /report request with a non-empty query whose
\* search and statement fetches meet no failure ends with the scored
\* CreditMetrics and no error
ReportShowsMetrics ==
    (/\ entry = "report" /\ Responded /\ strip(query) # <<>>
     /\ FMP_API_KEY
     /\ NothingFailed) =>
        /\ error = None
        /\ metrics # <<>> /\ sub_scores # <<>>
        /\ status = "rendered"

\* C20: once resolve_symbol has sent its search request it returns a pair:
\* (upper-cased stripped query, stripped query) when the request fails or
\* has no result, else the result's symbol (the upper-cased query when the
\* result has none) and the result's name (the symbol when it has none)
ResolveSymbolIsBestEffort ==
    (impl = "fmp" /\ calls["search"] # <<>>) =>
        LET o == calls["search"][1]
            raw == strip(query)
            best == upstream.search
            symbol == IF "symbol" \in DOMAIN best THEN best["symbol"]
                      ELSE Str(upper(raw))
        IN  /\ resolved # <<>>
            /\ raw # <<>> /\ Head(raw) # " " /\ raw[Len(raw)] # " "
            /\ o \in {"http_error", "empty"} =>
                   resolved[1] = [symbol |-> Str(upper(raw)), name |-> Str(raw)]
            /\ o = "ok" =>
                   /\ resolved[1].symbol = symbol
                   /\ resolved[1].name = IF "name" \in DOMAIN best
                                         THEN best["name"] ELSE symbol
            /\ resolved[1].symbol = Str(SYMBOL)

ResolveSymbolFallbackWitness ==
    /\ impl = "fmp"
    /\ query = <<" ", "A", "c", "m", "e", " ">>
    /\ calls["search"] = <<"http_error">>
    /\ resolved = <<[symbol |-> Str(SYMBOL),
                     name |-> Str(<<"A", "c", "m", "e">>)]>>

\* C22: once a CreditMetrics record exists, compute_score changes its score
\* and rating_bucket and nothing else, and no later step (memo generation,
\* PDF rendering, the response) changes any field
MetricsNeverMutatedAfterScoring ==
    [][metrics # <<>> =>
         /\ metrics' # <<>>
         /\ \A k \in DOMAIN metrics[1] \ {"score", "rating_bucket"} :
                metrics'[1][k] = metrics[1][k]
         /\ pc # "score" => metrics' = metrics]_vars

MetricsKeptWitness ==
    /\ Responded /\ status = "pdf saved"
    /\ metrics # <<>> /\ metrics[1].score > 0
    /\ metrics[1].fcf = calc[1].fcf /\ metrics[1].capex = q[1].capex
    /\ body = <<pdf_of(metrics[1], memo)>>

\* C24: whenever the Yahoo search of resolve_ticker_from_query fails (HTTP
\* error, request error, unparseable body, empty quotes) the resolver returns
\* (upper-cased query, query) and raises nothing
TickerFallbackNeverRaises ==
    (impl = "llm" /\ calls["search"] # <<>> /\ calls["search"][1] # "ok") =>
        /\ pc # "raised" \/ calls["yf"] # <<>>
        /\ resolved = <<[symbol |-> Str(upper(strip(query))),
                         name |-> Str(strip(query))]>>

ImplementationsAgree ==
    /\ Calculated =>
        LET x == q[1]
            fcf == IF x.operating_cash_flow = 0 /\ x.ebit # 0
                   THEN Frac(3 * x.ebit - 4 * x.capex - 4 * x.change_in_wc, 4)
                   ELSE R(x.operating_cash_flow - x.capex)
        IN  /\ calc[1].fcf = fcf
            /\ calc[1].fcf_to_debt =
                   IF x.total_debt > 0 THEN Div(fcf, R(x.total_debt)) ELSE Inf
            /\ calc[1].debt_to_ebitda =
                   IF x.ebitda # 0 THEN Frac(x.total_debt, x.ebitda) ELSE Inf
            /\ calc[1].interest_coverage =
                   IF x.interest_expense # 0
                   THEN Frac(x.ebit, Abs(x.interest_expense)) ELSE Inf
            /\ calc[1].dscr =
                   IF Abs(x.interest_expense) + x.short_term_debt > 0
                   THEN Frac(x.operating_cash_flow,
                             Abs(x.interest_expense) + x.short_term_debt)
                   ELSE Inf
    /\ Scored =>
        /\ metrics[1].score = ScoreSum(SubScores(calc[1]))
        /\ metrics[1].rating_bucket = bucket(metrics[1].score)

ImplementationsAgreeWitness ==
    /\ impl = "yf" /\ Scored
    /\ q[1].operating_cash_flow = 0 /\ q[1].ebit = 20
    /\ q[1].change_in_wc = 1 /\ q[1].capex = 2
    /\ calc[1].fcf = R(12)

\* how risky a bucket label is, 0 the least
riskiness(b) ==
    IF b = "Low credit risk" THEN 0
    ELSE IF b = "Moderate credit risk" THEN 1
    ELSE IF b = "Elevated credit risk" THEN 2
    ELSE 3

\* the score of record m with the ratio named k set to v
ScoreWith(m, k, v) == ScoreSum(SubScores([m EXCEPT ![k] = v]))

\* C28: with the other three ratios fixed, a lower interest_coverage, dscr
\* or fcf_to_debt, or a higher debt_to_ebitda, never has a higher score or a
\* less risky bucket than the record scored
ScoreIsMonotone ==
    Scored =>
        LET m == metrics[1]
            below(k, v) == IF k = "debt_to_ebitda" THEN Le(m[k], v)
                           ELSE Le(v, m[k])
            Values(k) == CASE k = "debt_to_ebitda" -> DebtEbitdaInputs
                           [] k = "interest_coverage" -> InterestCoverageInputs
                           [] k = "dscr" -> DscrInputs
                           [] k = "fcf_to_debt" -> FcfToDebtInputs
        IN  \A k \in {"debt_to_ebitda", "interest_coverage", "dscr",
                      "fcf_to_debt"} :
                \A v \in Values(k) :
                    below(k, v) =>
                        /\ ScoreWith(m, k, v) <= m.score
                        /\ riskiness(bucket(ScoreWith(m, k, v)))
                               >= riskiness(m.rating_bucket)

ScoreIsMonotoneWitness ==
    /\ Scored
    /\ metrics[1].debt_to_ebitda = Frac(9, 2)
    /\ metrics[1].score = 13
    /\ ScoreWith(metrics[1], "debt_to_ebitda", Inf) = 12
    /\ bucket(12) = "Elevated credit risk"

\* C29: when /report renders after a non-empty query, exactly one of error
\* and metrics is set, and memo is set only with metrics
ReportRendersOneCard ==
    (entry = "report" /\ pc \in {"render", "responded"}
     /\ status # "redirect") =>
        /\ ~(error # None /\ metrics # <<>>)
        /\ error # None \/ metrics # <<>>
        /\ memo # None => metrics # <<>>

ReportErrorCardWitness ==
    /\ entry = "report" /\ pc = "render"
    /\ error = CouldNotFetch /\ metrics = <<>> /\ memo = None
    /\ raised = "TypeError"

\* C26: /download-pdf answers 400 to an empty symbol before anything else,
\* else 500 to an unset FMP_API_KEY before any fetch, else 500 with an error
\* text when a fetch fails, and otherwise the PDF, with or without the memo
DownloadPdfOutcomes ==
    (entry = "download_pdf" /\ Responded) =>
        IF strip(query) = <<>>
        THEN status = MissingSymbol /\ calls = NoCalls
        ELSE IF ~FMP_API_KEY
        THEN status = KeyNotConfigured /\ calls = NoCalls
        ELSE IF ~NothingFailed
        THEN status = ErrorGeneratingPdf /\ body = <<>>
        ELSE /\ status = "200 pdf"
             /\ metrics # <<>>
             /\ body = <<pdf_of(metrics[1], memo)>>
             /\ memo \in {None, MemoText}

\* C30: in /download-pdf the company_name the pipeline computes is the
\* profile's companyName or the symbol, never the value of the API key
ApiKeyIsNotCompanyName ==
    (entry = "download_pdf" /\ Extracted) =>
        /\ q[1].company_name # ApiKeyValue
        /\ q[1].company_name \in {AcmeCorp, SYMBOL}

(***************************************************************************)
(* safe_get on its own: the first extraction statement of the yfinance     *)
(* variants, revenue = safe_get(income, [...]), on frames whose rows are   *)
(* absent, NaN or set                                                      *)
(***************************************************************************)
\* a cell that holds no number (float('nan'))
NaN == [t |-> "nan", v |-> 0, s |-> <<>>]

revenue_labels == <<"Total Revenue", "Revenue", "Net Revenue">>

\* income frames: empty, or with any of the revenue rows absent, NaN, 0 or
\* set, next to a row of another quantity
RevenueFrames ==
    {EmptyFrame, Frame(Y2023, EmptyDict)}
    \cup {Frame(Y2023, Entry("Total Revenue", f.total)
                       @@ Entry("Revenue", f.revenue)
                       @@ Entry("Net Revenue", f.net)
                       @@ Entry("EBIT", f.ebit)) :
          f \in [total : {Absent, NaN, Num(0), Num(9)},
                 revenue : {Absent, NaN, Num(8)},
                 net : {Absent, NaN, Num(7)},
                 ebit : {Absent, Num(2)}]}

InitSafeGet ==
    /\ impl \in {"llm", "yf"}
    /\ pc = "extract"
    /\ FMP_API_KEY = FALSE
    /\ forced_name = <<>>
    /\ upstream = EmptyDict
    /\ income \in RevenueFrames
    /\ balance = EmptyFrame /\ cashflow = EmptyFrame /\ profile = EmptyDict
    /\ q = <<>> /\ calc = <<>> /\ metrics = <<>> /\ sub_scores = <<>>
    /\ raised = ""
    /\ BareCall /\ calls = [NoCalls EXCEPT !["yf"] = <<"ok">>]

\* revenue = safe_get(income, ["Total Revenue", "Revenue", "Net Revenue"])
extract_revenue ==
    /\ impl \in {"llm", "yf"} /\ pc = "extract"
    /\ q' = <<[revenue |-> safe_get(income, revenue_labels)]>>
    /\ pc' = "revenue"
    /\ UNCHANGED <<impl, FMP_API_KEY, forced_name, upstream, income, balance,
                   cashflow, profile, calc, metrics, sub_scores, raised>>
    /\ UNCHANGED <<request, calls>>
    /\ UNCHANGED <<body, files, suspended>>

NextSafeGet == extract_revenue

SpecSafeGet == InitSafeGet /\ [][NextSafeGet]_vars

\* the cell of the first label of the list that is a row holding a number,
\* 0.0 when there is none
RECURSIVE FirstNumber(_, _)
FirstNumber(rows, labels) ==
    IF labels = <<>> THEN Num(0)
    ELSE IF Head(labels) \in DOMAIN rows /\ rows[Head(labels)].t = "num"
         THEN rows[Head(labels)]
         ELSE FirstNumber(rows, Tail(labels))

\* C23: safe_get returns 0.0 for an empty frame or when no candidate label
\* is a row, else the latest value of the first candidate label present; the
\* value is always a number, a NaN cell being passed over for the next
\* alias or the default
SafeGetReturnsANumber ==
    pc = "revenue" =>
        /\ q[1].revenue.t = "num"
        /\ q[1].revenue = IF income.columns = <<>> THEN Num(0)
                          ELSE FirstNumber(income.rows, revenue_labels)

(***************************************************************************)
(* Two requests at once: the variables above are the locals of the request *)
(* that runs, suspended holds the locals of the other one, and switch      *)
(* hands the processor over.  The environment and the files are shared.    *)
(***************************************************************************)
\* the locals of the request that runs
locals ==
    [impl |-> impl, pc |-> pc, forced_name |-> forced_name,
     upstream |-> upstream, income |-> income, balance |-> balance,
     cashflow |-> cashflow, profile |-> profile, q |-> q, calc |-> calc,
     metrics |-> metrics, sub_scores |-> sub_scores, raised |-> raised,
     entry |-> entry, query |-> query, resolved |-> resolved,
     error |-> error, memo |-> memo, status |-> status, calls |-> calls,
     body |-> body]

\* the locals of a request for the company at its start
StartOf(e, x) ==
    [impl |-> impl_of(e), pc |-> "request", forced_name |-> <<>>,
     upstream |-> ("search" :> Entry("symbol", Str(SYMBOL)))
                  @@ Payload(impl_of(e), EndToEndExample),
     income |-> EmptyDict, balance |-> EmptyDict, cashflow |-> EmptyDict,
     profile |-> EmptyDict, q |-> <<>>, calc |-> <<>>, metrics |-> <<>>,
     sub_scores |-> <<>>, raised |-> "", entry |-> e, query |-> x,
     resolved |-> <<>>, error |-> None, memo |-> None, status |-> "",
     calls |-> NoCalls, body |-> <<>>]

\* the requests that arrive together: the two routes and the command line
\* of credit_agent_llm.py
Arrivals ==
    {StartOf(e, x) : e \in {"report", "download_pdf", "llm_main"},
                     x \in {SYMBOL, <<"a", "c", "m", "e">>}}

\* the locals of the running request are those of record r
Runs(r) ==
    /\ impl = r.impl /\ pc = r.pc /\ forced_name = r.forced_name
    /\ upstream = r.upstream /\ income = r.income /\ balance = r.balance
    /\ cashflow = r.cashflow /\ profile = r.profile /\ q = r.q
    /\ calc = r.calc /\ metrics = r.metrics /\ sub_scores = r.sub_scores
    /\ raised = r.raised /\ entry = r.entry /\ query = r.query
    /\ resolved = r.resolved /\ error = r.error /\ memo = r.memo
    /\ status = r.status /\ calls = r.calls /\ body = r.body

InitThreads ==
    /\ FMP_API_KEY \in BOOLEAN
    /\ OPENAI_API_KEY \in BOOLEAN
    /\ files = NoFiles
    /\ \E r1 \in Arrivals, r2 \in Arrivals :
         /\ Runs(r1)
         /\ suspended = <<r2>>

\* the scheduler hands the processor to the other request
switch ==
    /\ suspended # <<>>
    /\ suspended[1].pc # "responded"
    /\ suspended' = <<locals>>
    /\ LET r == suspended[1]
       IN  /\ impl' = r.impl /\ pc' = r.pc /\ forced_name' = r.forced_name
           /\ upstream' = r.upstream /\ income' = r.income
           /\ balance' = r.balance /\ cashflow' = r.cashflow
           /\ profile' = r.profile /\ q' = r.q /\ calc' = r.calc
           /\ metrics' = r.metrics /\ sub_scores' = r.sub_scores
           /\ raised' = r.raised /\ entry' = r.entry /\ query' = r.query
           /\ resolved' = r.resolved /\ error' = r.error /\ memo' = r.memo
           /\ status' = r.status /\ calls' = r.calls /\ body' = r.body
    /\ UNCHANGED <<FMP_API_KEY, OPENAI_API_KEY, files>>

NextThreads ==
    \/ switch
    \/ report
    \/ download_pdf
    \/ main
    \/ resolve_ticker_from_query
    \/ fetch_fmp_income_statement
    \/ fetch_fmp_balance_sheet
    \/ fetch_fmp_cash_flow
    \/ fetch_fmp_profile
    \/ yf_fetch
    \/ extract
    \/ calculate
    \/ construct
    \/ compute_score
    \/ except_Exception
    \/ generate_credit_memo_with_llm
    \/ generate_pdf_report
    \/ render

SpecThreads == InitThreads /\ [][NextThreads]_vars

\* what request r has returned is what r itself has computed
OwnOutput(r) ==
    /\ r.status = "200 pdf" => r.body # <<>>
    /\ r.body # <<>> =>
           r.metrics # <<>> /\ r.body = <<pdf_of(r.metrics[1], r.memo)>>
    /\ r.status = "rendered" => r.error # None \/ r.metrics # <<>>
    /\ (r.pc = "responded" /\ r.metrics # <<>>) =>
           /\ EndToEndResult(r.metrics[1])
           /\ r.metrics[1].ticker = SYMBOL

====
